---- MODULE Spec2Model ----
(***************************************************************************)
(* Model of the two questionnaire tools of this repository:                *)
(*   check_ids.py  scans questions[*].id and                               *)
(*                 questions[*].possibleAnswers[*].id for duplicates and,  *)
(*                 with --fix, regenerates the extra occurrences;          *)
(*   sort_ans.py   sorts every questions[*].possibleAnswers list by a key. *)
(*                                                                         *)
(* Text is a sequence of one-character strings, so that formatting,        *)
(* splitting, parsing, case folding and code point comparison are computed *)
(* and not assumed.  A JSON value is a pair <<tag, payload>> with tag one  *)
(* of "null", "str", "num", "list"; a JSON object is a function from key   *)
(* names to JSON values.  A file is a pair <<kind, content>> with kind one *)
(* of "missing", "garbage" (not parseable as JSON) and "json".             *)
(***************************************************************************)
EXTENDS Integers, Sequences, FiniteSets, TLC

VARIABLES
    tool,          \* which script runs: "check_ids" or "sort_ans"
    args,          \* the parsed command line (argparse namespace)
    fs,            \* the file system: path -> file
    console,       \* the I/O messages printed so far, in order
    pc,            \* position of the running script inside main()
    status,        \* exit status of the process, -1 while it runs
    run,           \* 1 for the first invocation, 2 for a re-run on its output
    orig,          \* the document as it was loaded by the current run
    data,          \* the in-memory document (json.load result)
    qid_occ,       \* check_ids: id -> positions, for questions[*].id
    ansid_occ,     \* check_ids: id -> positions, for possibleAnswers[*].id
    all_ids,       \* check_ids: every id seen or generated so far
    dup_count,     \* check_ids: number of duplicate groups reported
    q_dupes,       \* check_ids: duplicate groups of qid_occ
    a_dupes,       \* check_ids: duplicate groups of ansid_occ
    replacements,  \* check_ids: position string -> new id
    gi,            \* check_ids: index of the duplicate group being repaired
    li,            \* check_ids: index into locs[1:] of that group
    new_id,        \* check_ids: last candidate drawn by generate_unique_uuid
    qi,            \* sort_ans: index of the next question to sort (0-based)
    changed,       \* sort_ans: number of lists whose serialization changed
    total          \* sort_ans: number of lists sorted

vars == <<tool, args, fs, console, pc, status, run, orig, data, qid_occ,
          ansid_occ, all_ids, dup_count, q_dupes, a_dupes, replacements,
          gi, li, new_id, qi, changed, total>>

idsVars == <<qid_occ, ansid_occ, all_ids, dup_count, q_dupes, a_dupes,
             replacements, gi, li, new_id>>

sortVars == <<qi, changed, total>>

-----------------------------------------------------------------------------
(* Bounds of the model *)

\* Largest number of identifier-bearing entities (questions plus answers)
\* in a document given to check_ids.
MaxIds == 4

\* Number of distinct values the random generator can return.
NumUuids == 3

\* Longest possibleAnswers list in a document given to sort_ans.
MaxAnswers == 3

-----------------------------------------------------------------------------
(* JSON values *)

Null == <<"null", <<>>>>

Str(chars) == <<"str", chars>>

Num(digits) == <<"num", digits>>

List(elems) == <<"list", elems>>

EmptyObject == <<>>

\* dict.get(key, default); the default of the one-argument form is None,
\* which is also what JSON null loads as.
Get(obj, key, default) == IF key \in DOMAIN obj THEN obj[key] ELSE default

\* obj[key] = value
SetItem(obj, key, value) ==
    [k \in DOMAIN obj \cup {key} |-> IF k = key THEN value ELSE obj[k]]

\* Python truth value of a JSON value: None, "", 0 and [] are false.
Truthy(v) ==
    CASE v[1] = "null" -> FALSE
      [] v[1] = "str"  -> v[2] # <<>>
      [] v[1] = "num"  -> v[2] # <<"0">>
      [] v[1] = "list" -> v[2] # <<>>

\* isinstance(v, list)
IsList(v) == v[1] = "list"

\* isinstance(v, str)
IsStr(v) == v[1] = "str"

\* x or y
Or(x, y) == IF Truthy(x) THEN x ELSE y

-----------------------------------------------------------------------------
(* Text *)

Digits == <<"0", "1", "2", "3", "4", "5", "6", "7", "8", "9">>

RECURSIVE IntToStr(_)
\* str(n) / the {n} of an f-string, for n >= 0
IntToStr(n) ==
    IF n < 10 THEN <<Digits[n + 1]>>
    ELSE IntToStr(n \div 10) \o <<Digits[(n % 10) + 1]>>

DigitValue(c) == CHOOSE d \in 0..9 : Digits[d + 1] = c

RECURSIVE ParseInt(_)
\* int(s) for a non-empty string of decimal digits
ParseInt(s) ==
    IF Len(s) = 1 THEN DigitValue(s[1])
    ELSE 10 * ParseInt(SubSeq(s, 1, Len(s) - 1)) + DigitValue(s[Len(s)])

MatchesAt(s, sep, i) ==
    /\ i + Len(sep) - 1 <= Len(s)
    /\ SubSeq(s, i, i + Len(sep) - 1) = sep

RECURSIVE SplitFrom(_, _, _, _)
SplitFrom(s, sep, i, cur) ==
    IF i > Len(s) THEN <<cur>>
    ELSE IF MatchesAt(s, sep, i)
         THEN <<cur>> \o SplitFrom(s, sep, i + Len(sep), <<>>)
         ELSE SplitFrom(s, sep, i + 1, Append(cur, s[i]))

\* s.split(sep): the pieces of s between the occurrences of sep
Split(s, sep) == SplitFrom(s, sep, 1, <<>>)

\* f"question[{qi}] id"
QuestionWhere(qidx) ==
    <<"q", "u", "e", "s", "t", "i", "o", "n", "[">> \o IntToStr(qidx)
    \o <<"]", " ", "i", "d">>

\* f"question[{qi}].possibleAnswers[{ai}] id"
AnswerWhere(qidx, aidx) ==
    <<"q", "u", "e", "s", "t", "i", "o", "n", "[">> \o IntToStr(qidx)
    \o <<"]", ".", "p", "o", "s", "s", "i", "b", "l", "e",
         "A", "n", "s", "w", "e", "r", "s", "[">>
    \o IntToStr(aidx) \o <<"]", " ", "i", "d">>

\* int(where.split("question[")[1].split("]")[0])
QuestionIndexOf(where) ==
    ParseInt(Split(Split(where, <<"q", "u", "e", "s", "t", "i", "o", "n", "[">>)[2],
                   <<"]">>)[1])

\* left, _ = where.split("] id")
LeftOf(where) == Split(where, <<"]", " ", "i", "d">>)[1]

\* int(left.split("possibleAnswers[")[1].split("]")[0])
AnswerIndexOf(where) ==
    ParseInt(Split(Split(LeftOf(where),
                         <<"p", "o", "s", "s", "i", "b", "l", "e",
                           "A", "n", "s", "w", "e", "r", "s", "[">>)[2],
                   <<"]">>)[1])

-----------------------------------------------------------------------------
(* Files *)

InputPath == <<"i", "n">>

OutputPath == <<"o", "u", "t">>

\* args.path + ".bak"
BakPath(path) == path \o <<".", "b", "a", "k">>

Paths == {InputPath, BakPath(InputPath), OutputPath, BakPath(OutputPath)}

Missing == <<"missing", <<>>>>

Garbage == <<"garbage", <<>>>>

\* The file json.dump(document) writes; json.load of it gives document back.
JsonFile(document) == <<"json", document>>

\* open(path, "r") followed by json.load succeeds
Readable(file) == file[1] = "json"

\* out_path = args.output or args.path
OutPath(a) == Or(a.output, a.path)[2]

\* What open(out_path, "w") and json.dump can do to the file at out_path:
\* write it, fail to open it (file untouched), or fail after truncating it.
WriteOutcomes == {"written", "open_failed", "dump_failed"}

WriteFile(files, path, document, outcome) ==
    CASE outcome = "written"     -> [files EXCEPT ![path] = JsonFile(document)]
      [] outcome = "open_failed" -> files
      [] outcome = "dump_failed" -> [files EXCEPT ![path] = Garbage]

\* shutil.copyfile(src, dst)
CopyFile(files, src, dst) == [files EXCEPT ![dst] = files[src]]

-----------------------------------------------------------------------------
(* check_ids.py: the occurrence index *)

HasKey(index_map, key) == \E i \in DOMAIN index_map : index_map[i].k = key

\* index_map[key].append(where) on a defaultdict(list), which keeps its keys
\* in insertion order
add_occurrence(index_map, key, where) ==
    IF HasKey(index_map, key)
    THEN [i \in DOMAIN index_map |->
            IF index_map[i].k = key
            THEN [k |-> key, v |-> Append(index_map[i].v, where)]
            ELSE index_map[i]]
    ELSE Append(index_map, [k |-> key, v |-> <<where>>])

\* a duplicate test that overlooks the groups of two
OccursMoreThanTwice(entry) == Len(entry.v) > 2

IsDuplicated(entry) == Len(entry.v) > 1

find_duplicates(occ_map) == SelectSeq(occ_map, IsDuplicated)

\* the return value of print_dupes
print_dupes(occ_map) == Len(find_duplicates(occ_map))

EmptyIndex == [q |-> <<>>, a |-> <<>>, all |-> {}]

\* an index builder that files the answer ids with the question ids
ScanAnswerIntoQuestionIndex(ix, ans, qidx, aidx) ==
    LET aid == Get(ans, "id", Null)
    IN  IF Truthy(aid)
        THEN [ix EXCEPT !.q = add_occurrence(@, aid, AnswerWhere(qidx, aidx)),
                        !.all = @ \cup {aid}]
        ELSE ix

\* the body of the inner loop, lines 98-103
ScanAnswer(ix, ans, qidx, aidx) ==
    LET aid == Get(ans, "id", Null)
    IN  IF Truthy(aid)
        THEN [ix EXCEPT !.a = add_occurrence(@, aid, AnswerWhere(qidx, aidx)),
                        !.all = @ \cup {aid}]
        ELSE ix

RECURSIVE ScanAnswers(_, _, _, _)
\* the first n iterations of the inner loop
ScanAnswers(ix, answers, qidx, n) ==
    IF n = 0 THEN ix
    ELSE ScanAnswer(ScanAnswers(ix, answers, qidx, n - 1), answers[n], qidx, n - 1)

\* the body of the outer loop, lines 90-103
ScanQuestion(ix, q, qidx) ==
    LET qid == Get(q, "id", Null)
        ix1 == IF Truthy(qid)
               THEN [ix EXCEPT !.q = add_occurrence(@, qid, QuestionWhere(qidx)),
                               !.all = @ \cup {qid}]
               ELSE ix
        pa  == Or(Get(q, "possibleAnswers", List(<<>>)), List(<<>>))
    IN  ScanAnswers(ix1, pa[2], qidx, Len(pa[2]))

RECURSIVE ScanQuestions(_, _, _)
\* the first n iterations of the outer loop
ScanQuestions(ix, questions, n) ==
    IF n = 0 THEN ix
    ELSE ScanQuestion(ScanQuestions(ix, questions, n - 1), questions[n], n - 1)

\* questions = data.get("questions", [])
QuestionsOf(document) == Get(document, "questions", List(<<>>))

-----------------------------------------------------------------------------
(* check_ids.py: the random generator *)

\* str(uuid.uuid4()), abstracted to NumUuids tokens "u1", "u2", ...
Uuid(i) == Str(<<"u">> \o IntToStr(i))

Uuids == {Uuid(i) : i \in 1..NumUuids}

\* a generator that returns its first candidate without looking it up
AcceptsAnyCandidate(existing_ids, candidate) == TRUE

\* line 59: the test that ends the resample loop
Accepts(existing_ids, candidate) == candidate \notin existing_ids

\* a generator that forgets the ids it has handed out
ForgetsId(existing_ids, candidate) == existing_ids

\* line 60: existing_ids.add(new_id)
AddId(existing_ids, candidate) == existing_ids \cup {candidate}

-----------------------------------------------------------------------------
(* check_ids.py: main() *)

\* lines 71-77: load the JSON, exit 2 when it cannot be read
IdsLoad ==
    /\ tool = "check_ids" /\ pc = "load"
    /\ IF Readable(fs[args.path[2]])
       THEN /\ data' = fs[args.path[2]][2]
            /\ orig' = fs[args.path[2]][2]
            /\ pc' = "check"
            /\ UNCHANGED <<console, status>>
       ELSE /\ console' = Append(console, "failed to read")
            /\ status' = 2
            /\ pc' = "exit"
            /\ UNCHANGED <<data, orig>>
    /\ UNCHANGED <<tool, args, fs, run, idsVars, sortVars>>

\* lines 79-82: the top-level 'questions' must be a list
IdsCheckQuestions ==
    /\ tool = "check_ids" /\ pc = "check"
    /\ IF IsList(QuestionsOf(data))
       THEN /\ pc' = "index"
            /\ UNCHANGED <<console, status>>
       ELSE /\ console' = Append(console, "no questions list")
            /\ status' = 2
            /\ pc' = "exit"
    /\ UNCHANGED <<tool, args, fs, run, orig, data, idsVars, sortVars>>

\* lines 84-103: collect the occurrences and the set of all ids
IdsBuildIndex ==
    /\ tool = "check_ids" /\ pc = "index"
    /\ LET questions == QuestionsOf(data)[2]
           ix == ScanQuestions(EmptyIndex, questions, Len(questions))
       IN  /\ qid_occ' = ix.q
           /\ ansid_occ' = ix.a
           /\ all_ids' = ix.all
    /\ pc' = "report"
    /\ UNCHANGED <<tool, args, fs, console, status, run, orig, data, dup_count,
                   q_dupes, a_dupes, replacements, gi, li, new_id, sortVars>>

\* lines 105-109: report the duplicates of both classes
IdsReport ==
    /\ tool = "check_ids" /\ pc = "report"
    /\ dup_count' = 0 + print_dupes(qid_occ) + print_dupes(ansid_occ)
    /\ pc' = "mode"
    /\ UNCHANGED <<tool, args, fs, console, status, run, orig, data, qid_occ,
                   ansid_occ, all_ids, q_dupes, a_dupes, replacements, gi, li,
                   new_id, sortVars>>

\* lines 111-117: without --fix, exit 1 when duplicates were found, else 0
IdsDetectExit ==
    /\ tool = "check_ids" /\ pc = "mode"
    /\ ~args.fix
    /\ status' = IF dup_count > 0 THEN 1 ELSE 0
    /\ pc' = "exit"
    /\ UNCHANGED <<tool, args, fs, console, run, orig, data, idsVars, sortVars>>

\* lines 119-127: with --fix, find the groups to repair
IdsStartFix ==
    /\ tool = "check_ids" /\ pc = "mode"
    /\ args.fix
    /\ q_dupes' = find_duplicates(qid_occ)
    /\ a_dupes' = find_duplicates(ansid_occ)
    /\ replacements' = <<>>
    /\ gi' = 1 /\ li' = 1
    /\ pc' = "fixq"
    /\ UNCHANGED <<tool, args, fs, console, status, run, orig, data, qid_occ,
                   ansid_occ, all_ids, dup_count, new_id, sortVars>>

\* the groups the running repair loop iterates over
Groups == IF pc = "fixq" THEN q_dupes ELSE a_dupes

\* a repair loop that also rewrites the first occurrence
AllLocs(locs) == locs

\* for where in locs[1:]
ExtraLocs(locs) == Tail(locs)

\* the loop variables after one more iteration of "for where in locs[1:]"
NextCursor(groups) ==
    IF li < Len(ExtraLocs(groups[gi].v))
    THEN [gi |-> gi, li |-> li + 1]
    ELSE [gi |-> gi + 1, li |-> 1]

\* questions[qidx]["id"] = value
SetQuestionId(document, qidx, value) ==
    LET questions == QuestionsOf(document)[2]
    IN  SetItem(document, "questions",
                List([questions EXCEPT ![qidx + 1] = SetItem(@, "id", value)]))

\* questions[qidx]["possibleAnswers"][aidx]["id"] = value
SetAnswerId(document, qidx, aidx, value) ==
    LET questions == QuestionsOf(document)[2]
        answers   == questions[qidx + 1]["possibleAnswers"][2]
    IN  SetItem(document, "questions",
                List([questions EXCEPT ![qidx + 1] =
                        SetItem(@, "possibleAnswers",
                                List([answers EXCEPT ![aidx + 1] =
                                        SetItem(@, "id", value)]))]))

\* lines 57-59: generate_unique_uuid draws a candidate that is already in
\* existing_ids and goes round its loop again
GenerateRetry(candidate) ==
    /\ tool = "check_ids" /\ pc \in {"fixq", "fixa"}
    /\ gi <= Len(Groups)
    /\ ~Accepts(all_ids, candidate)
    /\ new_id' = candidate
    /\ UNCHANGED <<tool, args, fs, console, pc, status, run, orig, data,
                   qid_occ, ansid_occ, all_ids, dup_count, q_dupes, a_dupes,
                   replacements, gi, li, sortVars>>

\* lines 130-139: one iteration of the question repair loop, with the
\* candidate that generate_unique_uuid accepts
ReplaceQuestionId(candidate) ==
    /\ tool = "check_ids" /\ pc = "fixq"
    /\ gi <= Len(q_dupes)
    /\ Accepts(all_ids, candidate)
    /\ LET where == ExtraLocs(q_dupes[gi].v)[li]
           qidx  == QuestionIndexOf(where)
       IN  /\ new_id' = candidate
           /\ all_ids' = AddId(all_ids, candidate)
           /\ data' = SetQuestionId(data, qidx, candidate)
           /\ replacements' = (where :> candidate) @@ replacements
    /\ gi' = NextCursor(q_dupes).gi
    /\ li' = NextCursor(q_dupes).li
    /\ UNCHANGED <<tool, args, fs, console, pc, status, run, orig, qid_occ,
                   ansid_occ, dup_count, q_dupes, a_dupes, sortVars>>

\* line 130: the question repair loop is exhausted
FixQuestionsDone ==
    /\ tool = "check_ids" /\ pc = "fixq"
    /\ gi > Len(q_dupes)
    /\ gi' = 1 /\ li' = 1
    /\ pc' = "fixa"
    /\ UNCHANGED <<tool, args, fs, console, status, run, orig, data, qid_occ,
                   ansid_occ, all_ids, dup_count, q_dupes, a_dupes,
                   replacements, new_id, sortVars>>

\* lines 142-151: one iteration of the answer repair loop
ReplaceAnswerId(candidate) ==
    /\ tool = "check_ids" /\ pc = "fixa"
    /\ gi <= Len(a_dupes)
    /\ Accepts(all_ids, candidate)
    /\ LET where == ExtraLocs(a_dupes[gi].v)[li]
           qidx  == QuestionIndexOf(LeftOf(where))
           aidx  == AnswerIndexOf(where)
       IN  /\ new_id' = candidate
           /\ all_ids' = AddId(all_ids, candidate)
           /\ data' = SetAnswerId(data, qidx, aidx, candidate)
           /\ replacements' = (where :> candidate) @@ replacements
    /\ gi' = NextCursor(a_dupes).gi
    /\ li' = NextCursor(a_dupes).li
    /\ UNCHANGED <<tool, args, fs, console, pc, status, run, orig, qid_occ,
                   ansid_occ, dup_count, q_dupes, a_dupes, sortVars>>

\* line 142: the answer repair loop is exhausted
FixAnswersDone ==
    /\ tool = "check_ids" /\ pc = "fixa"
    /\ gi > Len(a_dupes)
    /\ pc' = "backup"
    /\ UNCHANGED <<tool, args, fs, console, status, run, orig, data, idsVars,
                   sortVars>>

\* line 155: a backup is made only for true in-place writes
IdsWantsBackup(a) == a.fix /\ ~Truthy(a.output) /\ ~a.no_backup

\* lines 153-162: copy the input to <path>.bak; a failed copy only warns
IdsBackup ==
    /\ tool = "check_ids" /\ pc = "backup"
    /\ IF IdsWantsBackup(args)
       THEN \/ /\ fs' = CopyFile(fs, args.path[2], BakPath(args.path[2]))
               /\ console' = Append(console, "backup created")
            \/ /\ console' = Append(console, "could not create backup")
               /\ fs' = fs
       ELSE UNCHANGED <<fs, console>>
    /\ pc' = "write"
    /\ UNCHANGED <<tool, args, status, run, orig, data, idsVars, sortVars>>

\* lines 164-181: write the document to out_path; exit 2 when that fails,
\* else print the replacements and exit 0
IdsWrite ==
    /\ tool = "check_ids" /\ pc = "write"
    /\ \E outcome \in WriteOutcomes :
          /\ fs' = WriteFile(fs, OutPath(args), data, outcome)
          /\ IF outcome = "written"
             THEN /\ console' = Append(console, "wrote")
                  /\ status' = 0
             ELSE /\ console' = Append(console, "failed to write")
                  /\ status' = 2
    /\ pc' = "exit"
    /\ UNCHANGED <<tool, args, run, orig, data, idsVars, sortVars>>

\* The operator runs check_ids --fix a second time, in place, on the file
\* the first run wrote.
IdsRerun ==
    /\ tool = "check_ids" /\ pc = "exit" /\ run = 1
    /\ args.fix /\ status = 0
    /\ run' = 2
    /\ args' = [args EXCEPT !.path = Str(OutPath(args)), !.output = Null]
    /\ console' = <<>>
    /\ pc' = "load"
    /\ status' = -1
    /\ orig' = EmptyObject
    /\ data' = EmptyObject
    /\ qid_occ' = <<>> /\ ansid_occ' = <<>> /\ all_ids' = {}
    /\ dup_count' = 0
    /\ q_dupes' = <<>> /\ a_dupes' = <<>>
    /\ replacements' = <<>>
    /\ gi' = 1 /\ li' = 1
    /\ new_id' = Null
    /\ UNCHANGED <<tool, fs, sortVars>>

NextIds ==
    \/ IdsLoad
    \/ IdsCheckQuestions
    \/ IdsBuildIndex
    \/ IdsReport
    \/ IdsDetectExit
    \/ IdsStartFix
    \/ \E candidate \in Uuids : GenerateRetry(candidate)
    \/ \E candidate \in Uuids : ReplaceQuestionId(candidate)
    \/ FixQuestionsDone
    \/ \E candidate \in Uuids : ReplaceAnswerId(candidate)
    \/ FixAnswersDone
    \/ IdsBackup
    \/ IdsWrite
    \/ IdsRerun

-----------------------------------------------------------------------------
(* sort_ans.py: the sort key *)

UpperCase ==
    <<"A", "B", "C", "D", "E", "F", "G", "H", "I", "J", "K", "L", "M",
      "N", "O", "P", "Q", "R", "S", "T", "U", "V", "W", "X", "Y", "Z">>

LowerCase ==
    <<"a", "b", "c", "d", "e", "f", "g", "h", "i", "j", "k", "l", "m",
      "n", "o", "p", "q", "r", "s", "t", "u", "v", "w", "x", "y", "z">>

IndexIn(chars, c) == CHOOSE i \in DOMAIN chars : chars[i] = c

IsIn(chars, c) == \E i \in DOMAIN chars : chars[i] = c

\* ord(c) of a space, a digit or an ASCII letter
CodePoint(c) ==
    CASE c = " "           -> 32
      [] IsIn(Digits, c)    -> 47 + IndexIn(Digits, c)
      [] IsIn(UpperCase, c) -> 64 + IndexIn(UpperCase, c)
      [] IsIn(LowerCase, c) -> 96 + IndexIn(LowerCase, c)

\* c.casefold() of one ASCII character: "A".."Z" become "a".."z"
FoldChar(c) ==
    IF IsIn(UpperCase, c) THEN LowerCase[IndexIn(UpperCase, c)] ELSE c

\* s.casefold()
CaseFold(s) == [i \in DOMAIN s |-> FoldChar(s[i])]

\* the ASCII characters str.strip() removes
Whitespace == {" ", "\t", "\n", "\r"}

RECURSIVE LStrip(_)
LStrip(s) ==
    IF s # <<>> /\ s[1] \in Whitespace THEN LStrip(Tail(s)) ELSE s

RECURSIVE RStrip(_)
RStrip(s) ==
    IF s # <<>> /\ s[Len(s)] \in Whitespace
    THEN RStrip(SubSeq(s, 1, Len(s) - 1))
    ELSE s

\* s.strip()
Strip(s) == RStrip(LStrip(s))

\* str(val) of a JSON string or integer
ToStr(val) == val[2]

\* a normalization that keeps the case of the letters
NormKeepsCase(val) == IF val = Null THEN <<>> ELSE ToStr(val)

\* lines 29-36
norm(val) == IF val = Null THEN <<>> ELSE CaseFold(ToStr(val))

\* lines 75-78: (is_missing, norm(v))
sort_key(item, key) ==
    LET v == Get(item, key, Null)
        is_missing == v = Null \/ (IsStr(v) /\ Strip(v[2]) = <<>>)
    IN  <<is_missing, norm(v)>>

RECURSIVE StrLess(_, _)
\* a < b for two strings: by code point, a proper prefix first
StrLess(a, b) ==
    IF b = <<>> THEN FALSE
    ELSE IF a = <<>> THEN TRUE
    ELSE IF a[1] # b[1] THEN CodePoint(a[1]) < CodePoint(b[1])
    ELSE StrLess(Tail(a), Tail(b))

\* k1 < k2 for two (bool, str) tuples; False < True
KeyLess(k1, k2) ==
    IF k1[1] # k2[1] THEN k2[1] ELSE StrLess(k1[2], k2[2])

\* sorted with x put before the first element whose key is greater than that of x
InsertStable(sorted, x, key) ==
    LET later == {i \in DOMAIN sorted : KeyLess(sort_key(x, key), sort_key(sorted[i], key))}
        at    == IF later = {} THEN Len(sorted) + 1
                 ELSE CHOOSE i \in later : \A j \in later : i <= j
    IN  SubSeq(sorted, 1, at - 1) \o <<x>> \o SubSeq(sorted, at, Len(sorted))

RECURSIVE StableSort(_, _, _)
\* the first n items of items in ascending key order, equal keys in input order
StableSort(items, key, n) ==
    IF n = 0 THEN <<>>
    ELSE InsertStable(StableSort(items, key, n - 1), items[n], key)

Reverse(items) == [i \in DOMAIN items |-> items[Len(items) + 1 - i]]

\* line 80, pa.sort(key=sort_key, reverse=...): list.sort reverses the list,
\* sorts it stably in ascending order and reverses the result
ListSort(items, key, reverse) ==
    IF reverse
    THEN Reverse(StableSort(Reverse(items), key, Len(items)))
    ELSE StableSort(items, key, Len(items))

-----------------------------------------------------------------------------
(* sort_ans.py: main() *)

\* lines 47-53
SortLoad ==
    /\ tool = "sort_ans" /\ pc = "load"
    /\ IF Readable(fs[args.path[2]])
       THEN /\ data' = fs[args.path[2]][2]
            /\ orig' = fs[args.path[2]][2]
            /\ pc' = "check"
            /\ UNCHANGED <<console, status>>
       ELSE /\ console' = Append(console, "failed to read")
            /\ status' = 2
            /\ pc' = "exit"
            /\ UNCHANGED <<data, orig>>
    /\ UNCHANGED <<tool, args, fs, run, idsVars, sortVars>>

\* lines 55-61
SortCheckQuestions ==
    /\ tool = "sort_ans" /\ pc = "check"
    /\ IF IsList(QuestionsOf(data))
       THEN /\ pc' = "sort"
            /\ changed' = 0 /\ total' = 0 /\ qi' = 0
            /\ UNCHANGED <<console, status>>
       ELSE /\ console' = Append(console, "no questions list")
            /\ status' = 2
            /\ pc' = "exit"
            /\ UNCHANGED sortVars
    /\ UNCHANGED <<tool, args, fs, run, orig, data, idsVars>>

\* lines 63-84: one iteration of the loop over the questions
SortQuestion ==
    /\ tool = "sort_ans" /\ pc = "sort"
    /\ qi < Len(QuestionsOf(data)[2])
    /\ LET questions == QuestionsOf(data)[2]
           pa     == Get(questions[qi + 1], "possibleAnswers", Null)
           sorted == ListSort(pa[2], args.key, args.desc)
       IN  IF ~IsList(pa)
           THEN UNCHANGED <<data, changed, total>>
           ELSE /\ total' = total + 1
                /\ data' = SetItem(data, "questions",
                              List([questions EXCEPT ![qi + 1] =
                                      SetItem(@, "possibleAnswers", List(sorted))]))
                /\ changed' = IF pa[2] # sorted THEN changed + 1 ELSE changed
    /\ qi' = qi + 1
    /\ UNCHANGED <<tool, args, fs, console, pc, status, run, orig, idsVars>>

\* line 63: the loop over the questions is exhausted
SortDone ==
    /\ tool = "sort_ans" /\ pc = "sort"
    /\ qi >= Len(QuestionsOf(data)[2])
    /\ pc' = "backup"
    /\ UNCHANGED <<tool, args, fs, console, status, run, orig, data, idsVars,
                   sortVars>>

\* a backup test that does not look at --no-backup
BackupWheneverInPlace(a) == a.output = Null

\* line 89
SortWantsBackup(a) == a.output = Null /\ ~a.no_backup

\* lines 86-95
SortBackup ==
    /\ tool = "sort_ans" /\ pc = "backup"
    /\ IF SortWantsBackup(args)
       THEN \/ /\ fs' = CopyFile(fs, args.path[2], BakPath(args.path[2]))
               /\ console' = Append(console, "backup created")
            \/ /\ console' = Append(console, "could not create backup")
               /\ fs' = fs
       ELSE UNCHANGED <<fs, console>>
    /\ pc' = "write"
    /\ UNCHANGED <<tool, args, status, run, orig, data, idsVars, sortVars>>

\* lines 97-107: write; exit 2 when that fails, else fall off main (exit 0)
SortWrite ==
    /\ tool = "sort_ans" /\ pc = "write"
    /\ \E outcome \in WriteOutcomes :
          /\ fs' = WriteFile(fs, OutPath(args), data, outcome)
          /\ IF outcome = "written"
             THEN /\ console' = Append(console, "wrote")
                  /\ status' = 0
             ELSE /\ console' = Append(console, "failed to write")
                  /\ status' = 2
    /\ pc' = "exit"
    /\ UNCHANGED <<tool, args, run, orig, data, idsVars, sortVars>>

NextSort ==
    \/ SortLoad
    \/ SortCheckQuestions
    \/ SortQuestion
    \/ SortDone
    \/ SortBackup
    \/ SortWrite

-----------------------------------------------------------------------------
(* The documents and command lines the model starts from *)

Absent == <<"absent", <<>>>>

\* obj with key set to choice, or without the key when choice is Absent
WithField(obj, key, choice) ==
    IF choice = Absent THEN obj ELSE SetItem(obj, key, choice)

\* The id of a question or an answer: no key, empty, an ordinary value, or
\* a value the random generator can also produce.
IdChoices == {Absent, Str(<<>>), Str(<<"a">>), Uuid(1)}

IdsAnswers == {WithField([answer |-> Str(<<"x">>)], "id", c) : c \in IdChoices}

RECURSIVE AnswerLists(_, _)
\* the lists of exactly n answers drawn from answers
AnswerLists(answers, n) ==
    IF n = 0 THEN {<<>>}
    ELSE {Append(l, a) : l \in AnswerLists(answers, n - 1), a \in answers}

\* the questions made of m entities: the question and its m - 1 answers
IdsQuestions(m) ==
    {WithField(WithField([text |-> Str(<<"t">>)], "id", c), "possibleAnswers", pa) :
        c \in IdChoices,
        pa \in IF m = 1 THEN {Absent}
               ELSE {List(l) : l \in AnswerLists(IdsAnswers, m - 1)}}

RECURSIVE IdsQuestionSeqs(_)
\* the question lists made of exactly n entities
IdsQuestionSeqs(n) ==
    IF n = 0 THEN {<<>>}
    ELSE UNION {{<<q>> \o rest : q \in IdsQuestions(m),
                                 rest \in IdsQuestionSeqs(n - m)} : m \in 1..n}

IdsDocs == {[questions |-> List(qs)] : qs \in UNION {IdsQuestionSeqs(n) : n \in 0..MaxIds}}

\* Documents and files that exercise the format checks and the I/O paths.
BaseFiles ==
    {Missing, Garbage,
     JsonFile(EmptyObject),
     JsonFile([questions |-> Null]),
     JsonFile([questions |-> Str(<<"a">>)]),
     JsonFile([questions |-> List(<<>>)]),
     JsonFile([questions |-> List(<<[id |-> Str(<<"a">>), possibleAnswers |-> Null],
                                    [id |-> Str(<<"a">>), possibleAnswers |-> List(<<>>)],
                                    [id |-> Null],
                                    [id |-> Null,
                                     possibleAnswers |-> List(<<[id |-> Str(<<"a">>)],
                                                                [id |-> Null],
                                                                [id |-> Str(<<"a">>)],
                                                                [id |-> Null]>>)]>>)])}

OutputChoices == {Null, Str(<<>>), Str(OutputPath), Str(InputPath)}

IdsArgs ==
    [path : {Str(InputPath)}, fix : BOOLEAN, output : OutputChoices,
     no_backup : BOOLEAN]

\* in place, without a backup
IdsPlainArgs == {a \in IdsArgs : a.output = Null /\ a.no_backup}

InitProcess(t, a, file) ==
    /\ tool = t
    /\ args = a
    /\ fs = [p \in Paths |-> IF p = InputPath THEN file ELSE Missing]
    /\ console = <<>>
    /\ pc = "load"
    /\ status = -1
    /\ run = 1
    /\ orig = EmptyObject
    /\ data = EmptyObject
    /\ qid_occ = <<>> /\ ansid_occ = <<>> /\ all_ids = {}
    /\ dup_count = 0
    /\ q_dupes = <<>> /\ a_dupes = <<>>
    /\ replacements = <<>>
    /\ gi = 1 /\ li = 1
    /\ new_id = Null
    /\ qi = 0 /\ changed = 0 /\ total = 0

\* check_ids on every bounded document written back in place, and on the
\* base files with every combination of options
InitIds ==
    \/ \E d \in IdsDocs, a \in IdsPlainArgs : InitProcess("check_ids", a, JsonFile(d))
    \/ \E f \in BaseFiles, a \in IdsArgs : InitProcess("check_ids", a, f)

\* The value of the field sort_ans sorts by: no key, null, empty, blank,
\* letters that differ in case only, and a number.
SortValues ==
    {Absent, Null, Str(<<>>), Str(<<" ">>), Str(<<"a">>), Str(<<"B">>),
     Str(<<"b">>), Num(<<"2">>)}

RECURSIVE ValueLists(_)
\* the lists of exactly n values
ValueLists(n) ==
    IF n = 0 THEN {<<>>}
    ELSE {Append(l, v) : l \in ValueLists(n - 1), v \in SortValues}

\* the answers carrying these values; the id of each is its input position
AnswersOf(values) ==
    [i \in DOMAIN values |-> WithField([id |-> Str(IntToStr(i))], "answer", values[i])]

SortDocs ==
    {[questions |-> List(<<[id |-> Str(<<"q">>), possibleAnswers |-> List(AnswersOf(vs))]>>)] :
        vs \in UNION {ValueLists(n) : n \in 0..MaxAnswers}}

\* The display values of the example of the specification:
\* banana, "", Apple, null, cherry
ExampleValues ==
    <<Str(<<"b", "a", "n", "a", "n", "a">>), Str(<<>>),
      Str(<<"A", "p", "p", "l", "e">>), Null,
      Str(<<"c", "h", "e", "r", "r", "y">>)>>

SortBaseFiles ==
    {Missing, Garbage,
     JsonFile(EmptyObject),
     JsonFile([questions |-> Null]),
     JsonFile([questions |-> Str(<<"a">>)]),
     JsonFile([questions |-> List(<<>>)]),
     JsonFile([questions |-> List(<<[id |-> Str(<<"p">>), possibleAnswers |-> Null],
                                    [id |-> Str(<<"q">>)],
                                    [id |-> Str(<<"r">>),
                                     possibleAnswers |-> List(AnswersOf(ExampleValues))]>>)])}

SortArgs ==
    [path : {Str(InputPath)}, key : {"answer"}, desc : BOOLEAN,
     output : OutputChoices, no_backup : BOOLEAN]

\* in place, without a backup
SortPlainArgs == {a \in SortArgs : a.output = Null /\ a.no_backup}

\* sort_ans on every bounded document written back in place, and on the
\* base files with every combination of options
InitSort ==
    \/ \E d \in SortDocs, a \in SortPlainArgs : InitProcess("sort_ans", a, JsonFile(d))
    \/ \E f \in SortBaseFiles, a \in SortArgs : InitProcess("sort_ans", a, f)

Init == InitIds \/ InitSort

Next == NextIds \/ NextSort

Spec == Init /\ [][Next]_vars

\* A document whose repair needs one fresh id more than the generator has:
\* NumUuids + 1 questions that all carry the id "u1".
ExhaustingDoc ==
    [questions |-> List([i \in 1..(NumUuids + 1) |-> [id |-> Uuid(1)]])]

\* check_ids on the base files and on the exhausting document, with every
\* combination of options
InitFair ==
    \E f \in BaseFiles \cup {JsonFile(ExhaustingDoc)}, a \in IdsArgs :
        InitProcess("check_ids", a, f)

\* check_ids keeps running: every step of main() that can be taken is taken.
FairSpec == InitFair /\ [][NextIds]_vars /\ WF_vars(NextIds)

-----------------------------------------------------------------------------
(* Vocabulary of the properties: positions, identifiers, duplicate groups *)

QuestionList(document) ==
    IF "questions" \in DOMAIN document /\ IsList(document["questions"])
    THEN document["questions"][2] ELSE <<>>

AnswerList(question) ==
    IF "possibleAnswers" \in DOMAIN question /\ IsList(question["possibleAnswers"])
    THEN question["possibleAnswers"][2] ELSE <<>>

\* <<"q", i, 0>> is question i, <<"a", i, j>> is answer j of question i
Positions(document) ==
    {<<"q", i, 0>> : i \in DOMAIN QuestionList(document)}
    \cup UNION {{<<"a", i, j>> : j \in DOMAIN AnswerList(QuestionList(document)[i])} :
                  i \in DOMAIN QuestionList(document)}

Entity(document, p) ==
    IF p[1] = "q" THEN QuestionList(document)[p[2]]
    ELSE AnswerList(QuestionList(document)[p[2]])[p[3]]

IdAt(document, p) == Get(Entity(document, p), "id", Absent)

\* an identifier value, as opposed to a missing, null or empty id
IsIdValue(v) == v \notin {Absent, Null, Str(<<>>)}

\* p comes before r in document order, in the same identifier class
Earlier(p, r) ==
    /\ p[1] = r[1]
    /\ p[2] < r[2] \/ (p[2] = r[2] /\ p[3] < r[3])

\* p is a second or later occurrence of its identifier within its class
IsLaterOccurrence(document, p) ==
    /\ IsIdValue(IdAt(document, p))
    /\ \E r \in Positions(document) :
          Earlier(r, p) /\ IdAt(document, r) = IdAt(document, p)

\* p belongs to a duplicate group
InDuplicateGroup(document, p) ==
    /\ IsIdValue(IdAt(document, p))
    /\ \E r \in Positions(document) :
          r # p /\ r[1] = p[1] /\ IdAt(document, r) = IdAt(document, p)

\* the duplicate groups, each named by its class and its identifier
DuplicateGroups(document) ==
    {<<p[1], IdAt(document, p)>> :
        p \in {r \in Positions(document) : InDuplicateGroup(document, r)}}

\* every id value written anywhere in the document
IdsIn(document) ==
    {IdAt(document, p) : p \in Positions(document)} \ {Absent}

\* the fields of an entity other than its id and its list of answers
OtherFields(document, p) ==
    LET e == Entity(document, p)
        keys == {k \in DOMAIN e :
                    /\ k # "id"
                    /\ ~(k = "possibleAnswers" /\ IsList(e[k]))}
    IN  [k \in keys |-> e[k]]

\* the repair loops of check_ids --fix have run to their end
RepairDone ==
    /\ tool = "check_ids" /\ args.fix
    /\ pc \in {"backup", "write", "exit"}
    /\ IsList(QuestionsOf(orig))

Generated == {replacements[w] : w \in DOMAIN replacements}

-----------------------------------------------------------------------------
(* C1 *)

\* C1: during and after a repair run, every position whose id the run has
\* rewritten holds a value that was nowhere in the loaded document and that
\* no other position (of either class) holds; the generated values are
\* pairwise distinct, none of them was in the loaded document, and all of
\* them are in the running all_ids set.
C1_GeneratedIdsAreFresh ==
    (tool = "check_ids" /\ args.fix) =>
        /\ \A p \in Positions(data) :
              IdAt(data, p) # IdAt(orig, p) =>
                  /\ IdAt(data, p) \notin IdsIn(orig)
                  /\ IdAt(data, p) \in Generated
                  /\ \A r \in Positions(data) \ {p} : IdAt(data, r) # IdAt(data, p)
        /\ Generated \cap IdsIn(orig) = {}
        /\ Cardinality(Generated) = Cardinality(DOMAIN replacements)
        /\ Generated \subseteq all_ids

\* a finished run that generated two ids and had to reject a candidate
\* because the document already used it
C1_Witness ==
    /\ RepairDone /\ run = 1 /\ pc = "exit" /\ status = 0
    /\ Cardinality(Generated) = 2
    /\ Uuid(1) \in IdsIn(orig)

-----------------------------------------------------------------------------
(* C2 *)

\* C2: a repair run keeps the shape of the document, every field other than
\* an id, and the id of every position that is not a second or later
\* occurrence of a duplicate group; once the repair loops are done, exactly
\* the second and later occurrences hold a different id.
C2_OnlyLaterOccurrencesRewritten ==
    (tool = "check_ids" /\ pc # "load") =>
        /\ Positions(data) = Positions(orig)
        /\ DOMAIN data = DOMAIN orig
        /\ \A p \in Positions(orig) :
              /\ OtherFields(data, p) = OtherFields(orig, p)
              /\ ~IsLaterOccurrence(orig, p) => IdAt(data, p) = IdAt(orig, p)
              /\ (RepairDone /\ IsLaterOccurrence(orig, p)) =>
                    IdAt(data, p) # IdAt(orig, p)

\* a finished run on a document with a group of three occurrences and an
\* id outside every group
C2_Witness ==
    /\ RepairDone /\ run = 1 /\ pc = "exit" /\ status = 0
    /\ \E p, r \in Positions(orig) :
          /\ IsLaterOccurrence(orig, p) /\ IsLaterOccurrence(orig, r) /\ p # r
          /\ IdAt(orig, p) = IdAt(orig, r) /\ p[1] = r[1]
    /\ \E p \in Positions(orig) :
          IsIdValue(IdAt(orig, p)) /\ ~InDuplicateGroup(orig, p)

-----------------------------------------------------------------------------
(* C3 *)

OccurrencesInGroups(document) ==
    {p \in Positions(document) : InDuplicateGroup(document, p)}

\* C3: once the repair loops are done, the replacement log has as many
\* entries as there are occurrences in duplicate groups minus the number of
\* duplicate groups.
C3_ReplacementCount ==
    RepairDone =>
        Cardinality(DOMAIN replacements) =
            Cardinality(OccurrencesInGroups(orig)) - Cardinality(DuplicateGroups(orig))

\* a finished run on a document with a duplicate group in each class
C3_Witness ==
    /\ RepairDone /\ run = 1 /\ pc = "exit" /\ status = 0
    /\ \E g, h \in DuplicateGroups(orig) : g[1] = "q" /\ h[1] = "a"
    /\ Cardinality(DOMAIN replacements) = 2

-----------------------------------------------------------------------------
(* C4 *)

\* C4: a second repair run, on the file the first one wrote, reports no
\* duplicate group, replaces nothing, keeps the document as loaded and
\* writes it back unchanged.
C4_RepairIsIdempotent ==
    (tool = "check_ids" /\ run = 2) =>
        /\ pc \in {"mode", "fixq", "fixa", "backup", "write", "exit"} =>
              /\ dup_count = 0
              /\ DuplicateGroups(orig) = {}
        /\ replacements = <<>>
        /\ data = orig
        /\ (pc = "exit" /\ status = 0) => fs[args.path[2]] = JsonFile(orig)

\* a finished second run on a document the first run had to repair in both
\* classes
C4_Witness ==
    /\ tool = "check_ids" /\ run = 2 /\ pc = "exit" /\ status = 0
    /\ \E p, r \in Positions(orig) :
          /\ p[1] = "q" /\ r[1] = "a"
          /\ IdAt(orig, p) \in Uuids \ {Uuid(1)}
          /\ IdAt(orig, r) \in Uuids \ {Uuid(1)}

-----------------------------------------------------------------------------
(* Vocabulary of the properties: the sorted field *)

\* the field is absent, null, or an empty or whitespace-only string
FieldMissing(item) ==
    LET v == Get(item, args.key, Absent)
    IN  \/ v \in {Absent, Null}
        \/ v[1] = "str" /\ \A i \in DOMAIN v[2] : v[2][i] \in Whitespace

\* the case-folded text of the field, empty when there is no value
FoldedField(item) ==
    LET v == Get(item, args.key, Absent)
    IN  IF v \in {Absent, Null} THEN <<>> ELSE CaseFold(v[2])

MissingLast(items) ==
    \A i, j \in DOMAIN items :
        (i < j /\ FieldMissing(items[i])) => FieldMissing(items[j])

Count(items, x) == Cardinality({k \in DOMAIN items : items[k] = x})

IsPermutation(before, after) ==
    /\ Len(before) = Len(after)
    /\ \A k \in DOMAIN before : Count(after, before[k]) = Count(before, before[k])

\* the input position of an item (the items of a list differ in their id)
PlaceIn(before, x) == CHOOSE k \in DOMAIN before : before[k] = x

\* sort_ans has sorted every list of the loaded document
SortingDone ==
    /\ tool = "sort_ans"
    /\ pc \in {"backup", "write", "exit"}

-----------------------------------------------------------------------------
(* C5 *)

\* C5: with --desc, every sorted possibleAnswers list has its missing items
\* after all its present items, and its present items in non-increasing
\* order of their case-folded value.
C5_MissingLastWhenDescending ==
    (SortingDone /\ args.desc) =>
        \A q \in DOMAIN QuestionList(data) :
            LET after == AnswerList(QuestionList(data)[q])
            IN  /\ MissingLast(after)
                /\ \A i, j \in DOMAIN after :
                      (i < j /\ ~FieldMissing(after[i]) /\ ~FieldMissing(after[j]))
                          => ~StrLess(FoldedField(after[i]), FoldedField(after[j]))

-----------------------------------------------------------------------------
(* C6 *)

\* C6: without --desc, every sorted possibleAnswers list is a permutation of
\* the loaded one, with the present items first and in non-decreasing order
\* of their case-folded value, the items of equal key in their input order;
\* nothing else in the document changes.
C6_AscendingSort ==
    (SortingDone /\ ~args.desc) =>
        /\ DOMAIN data = DOMAIN orig
        /\ Len(QuestionList(data)) = Len(QuestionList(orig))
        /\ \A q \in DOMAIN QuestionList(orig) :
            LET before == AnswerList(QuestionList(orig)[q])
                after  == AnswerList(QuestionList(data)[q])
            IN  /\ OtherFields(data, <<"q", q, 0>>) = OtherFields(orig, <<"q", q, 0>>)
                /\ IdAt(data, <<"q", q, 0>>) = IdAt(orig, <<"q", q, 0>>)
                /\ IsPermutation(before, after)
                /\ MissingLast(after)
                /\ \A i, j \in DOMAIN after :
                      i < j =>
                        /\ (~FieldMissing(after[i]) /\ ~FieldMissing(after[j]))
                              => ~StrLess(FoldedField(after[j]), FoldedField(after[i]))
                        /\ (/\ FieldMissing(after[i]) = FieldMissing(after[j])
                            /\ FoldedField(after[i]) = FoldedField(after[j]))
                              => PlaceIn(before, after[i]) < PlaceIn(before, after[j])

\* a finished ascending run that moved a missing item behind a present one
\* and met two present items that differ in case only
C6_Witness ==
    /\ SortingDone /\ ~args.desc /\ pc = "exit" /\ status = 0 /\ changed > 0
    /\ \E q \in DOMAIN QuestionList(orig) :
          LET before == AnswerList(QuestionList(orig)[q])
          IN  /\ \E i, j \in DOMAIN before :
                    i < j /\ FieldMissing(before[i]) /\ ~FieldMissing(before[j])
              /\ \E i, j \in DOMAIN before :
                    /\ i # j
                    /\ ~FieldMissing(before[i]) /\ ~FieldMissing(before[j])
                    /\ FoldedField(before[i]) = FoldedField(before[j])
                    /\ Get(before[i], args.key, Absent) # Get(before[j], args.key, Absent)

-----------------------------------------------------------------------------
(* C7 *)

Said(message) == \E i \in DOMAIN console : console[i] = message

\* the files other than the input are as they were before the first run
NothingWritten ==
    /\ \A p \in Paths \ {InputPath} : fs[p] = Missing
    /\ ~Said("wrote") /\ ~Said("failed to write")
    /\ ~Said("backup created") /\ ~Said("could not create backup")

\* C7: when the loaded document has no 'questions' list (no such key, or a
\* value that is not a list), either tool stops after the format check with
\* a non-zero status, the document unchanged and nothing written.
C7_NoQuestionsListIsFatal ==
    (/\ run = 1 /\ pc # "load" /\ ~Said("failed to read")
     /\ ~("questions" \in DOMAIN orig /\ IsList(orig["questions"]))) =>
        /\ pc \in {"check", "exit"}
        /\ pc = "exit" => status > 0
        /\ data = orig
        /\ NothingWritten
        /\ fs[InputPath] = JsonFile(orig)

-----------------------------------------------------------------------------
(* C8 *)

\* C8: without --fix, check_ids never changes the document nor any file;
\* on a document it could load and that passed the format check it counts
\* exactly the duplicate groups (same class, same identifier value, two or
\* more positions) and exits 1 when there is one, 0 when there is none.
C8_DetectionStatus ==
    (tool = "check_ids" /\ ~args.fix) =>
        /\ data = orig
        /\ NothingWritten
        /\ (pc # "load" /\ ~Said("failed to read")) => fs[InputPath] = JsonFile(orig)
        /\ (pc \in {"mode", "exit"} /\ console = <<>>) =>
              dup_count = Cardinality(DuplicateGroups(orig))
        /\ (pc = "exit" /\ console = <<>>) =>
              status = IF DuplicateGroups(orig) # {} THEN 1 ELSE 0

\* a clean detection run on a document that uses one value in both classes
\* and has two missing ids in one class
C8_Witness ==
    /\ tool = "check_ids" /\ ~args.fix /\ pc = "exit" /\ status = 0
    /\ \E p, r \in Positions(orig) :
          p[1] = "q" /\ r[1] = "a" /\ IsIdValue(IdAt(orig, p))
          /\ IdAt(orig, p) = IdAt(orig, r)
    /\ \E p, r \in Positions(orig) :
          p # r /\ p[1] = r[1]
          /\ ~IsIdValue(IdAt(orig, p)) /\ ~IsIdValue(IdAt(orig, r))

-----------------------------------------------------------------------------
(* C9 *)

\* C9: whenever a repair loop is running, the run eventually leaves it: no
\* sequence of candidates keeps generate_unique_uuid drawing forever.
C9_ResampleLoopStops ==
    (pc \in {"fixq", "fixa"}) ~> (pc \notin {"fixq", "fixa"})

-----------------------------------------------------------------------------
(* C10 *)

BackupMessages == {"backup created", "could not create backup"}

WriteMessages == {"wrote", "failed to write"}

\* the write has replaced or destroyed the file at out_path
Overwritten ==
    \/ Said("wrote")
    \/ Said("failed to write") /\ fs[OutPath(args)] = Garbage

\* C10 as claimed: a file overwritten in place without --no-backup has a
\* backup of the original; with an --output path or --no-backup there is no
\* backup; a backup made before a failed write is still there.
C10_BackupExistsBeforeOverwrite ==
    LET bak == fs[BakPath(args.path[2])]
    IN  /\ (args.output = Null /\ ~args.no_backup /\ Overwritten)
              => bak = JsonFile(orig)
        /\ (Truthy(args.output) \/ args.no_backup) => bak = Missing
        /\ (Said("backup created") /\ Said("failed to write"))
              => bak = JsonFile(orig)

\* C10 as amended: without --output and without --no-backup the backup copy
\* is attempted before the write; a copy that succeeded holds the original
\* document from then on, also after a failed write; a copy that failed is
\* only reported and the write still happens.  With a non-empty --output or
\* with --no-backup no backup is attempted.
C10_BackupAttemptedBeforeOverwrite ==
    LET bak == fs[BakPath(args.path[2])]
    IN  /\ (args.output = Null /\ ~args.no_backup) =>
              /\ \A j \in DOMAIN console :
                    console[j] \in WriteMessages =>
                        \E i \in 1..(j - 1) : console[i] \in BackupMessages
              /\ Said("backup created") => bak = JsonFile(orig)
              /\ (run = 1 /\ ~Said("backup created")) => bak = Missing
        /\ (Truthy(args.output) \/ args.no_backup) =>
              /\ bak = Missing
              /\ \A i \in DOMAIN console : console[i] \notin BackupMessages
        /\ (Said("backup created") /\ Said("failed to write"))
              => bak = JsonFile(orig)

\* an in-place write that failed after truncating the file, with the backup
\* made before it still holding the original document
C10_Witness ==
    /\ pc = "exit" /\ status = 2
    /\ args.output = Null /\ ~args.no_backup
    /\ console = <<"backup created", "failed to write">>
    /\ fs[args.path[2]] = Garbage
    /\ fs[BakPath(args.path[2])] = JsonFile(orig)
    /\ data # orig

====
